---- MODULE Spec2Model ----
(***************************************************************************)
(* Red-black tree of chocolacula/rb_tree (src/src/rb_tree.rs).             *)
(*                                                                         *)
(* The tree is a root slot, a heap of reference-counted nodes (key,        *)
(* colour, two child slots) and a live-element count.  add and remove are  *)
(* modelled as the code runs them: a descent that records the ancestry     *)
(* (node handle, branch taken), followed by the recursive fix-ups which    *)
(* pop, push and rotate on that ancestry.                                  *)
(***************************************************************************)
EXTENDS Integers, Sequences, FiniteSets, TLC

\* ---------------------------------------------------------------- bounds
\* number of add calls in one behaviour
MaxAdds == 10
\* keys are drawn from 1..MaxKey
MaxKey == 3
\* most add calls in the runs that follow every node object by its handle
MaxObjects == 5
\* most nodes of a tree handed to the validator or to a rotation as it is
MaxNodes == 5

Keys == 1..MaxKey

\* ------------------------------------------------------------- constants
LEFT == 0
RIGHT == 1
Red == "Red"
Black == "Black"
\* Option::None in a child slot or in the root slot
Nil == 0

VARIABLES
    root,      \* RbTree.root: a node handle or Nil
    heap,      \* the live RbTreeNode objects: handle -> [val, color, children]
    len,       \* RbTree.len
    panic,     \* TRUE once an unwrap() or a debug assertion failed
    last,      \* the last public call: [op, val, ret]
    adds,      \* number of add calls so far
    removed,   \* number of remove calls that returned true so far
    phase,     \* "free": calls in any order; "add"/"remove": round trip
    pending,   \* round trip: key -> copies added and not yet removed
    trace,     \* what the last call did inside: branches, rotations, swaps
    verdict,   \* what the validator said when print last ran
    script     \* main: number of statements already executed

vars == <<root, heap, len, panic, last, adds, removed, phase, pending,
          trace, verdict, script>>

\* ------------------------------------------------------------ node store
new_node(val, color) ==
    [val |-> val, color |-> color, children |-> [p \in {LEFT, RIGHT} |-> Nil]]

\* Rc::new: the handle of a fresh allocation (the lowest unused one)
rc_new(h) ==
    CHOOSE n \in 1..(Cardinality(DOMAIN h) + 1) :
        /\ n \notin DOMAIN h
        /\ \A k \in 1..(n - 1) : k \in DOMAIN h

RECURSIVE Closure(_, _)
\* the handles in S and all handles below them
Closure(h, S) ==
    LET T == S \cup ({h[n].children[p] : n \in S, p \in {LEFT, RIGHT}} \ {Nil})
    IN  IF T = S THEN S ELSE Closure(h, T)

\* the handles reachable from slot n through child slots
Reach(h, n) == IF n = Nil THEN {} ELSE Closure(h, {n})

\* the links below the root slot form a tree: the root is in no child slot
\* and every other reachable node is in exactly one
IsTree(h, r) ==
    LET live == Reach(h, r)
        slots == live \X {LEFT, RIGHT}
    IN  \A n \in live :
            Cardinality({s \in slots : h[s[1]].children[s[2]] = n}) =
                (IF n = r THEN 0 ELSE 1)

RECURSIVE InOrder(_, _)
\* in-order traversal (left subtree, node, right subtree) as handles
InOrder(h, n) ==
    IF n = Nil THEN <<>>
    ELSE InOrder(h, h[n].children[LEFT]) \o <<n>> \o InOrder(h, h[n].children[RIGHT])

\* The end of a public call.  The ancestry Vec is dropped, and with it the
\* last Rc of every node that no child slot and not the root slot holds.
\* A handle is an Rc pointer, which the code only ever compares for
\* identity, so between calls the live nodes are named by their in-order
\* rank: two heaps that differ in the addresses only are one state.  The
\* specification that follows single node objects across calls keeps the
\* handles as they are (rename = FALSE).
release(m) ==
    IF ~m.rename \/ ~IsTree(m.heap, m.root)
    THEN [m EXCEPT !.heap = [n \in Reach(m.heap, m.root) |-> m.heap[n]],
                   !.anc = <<>>,
                   !.links = [root |-> m.root, heap |-> m.heap]]
    ELSE
    LET ord == InOrder(m.heap, m.root)
        rank(x) == IF x = Nil THEN Nil ELSE CHOOSE i \in 1..Len(ord) : ord[i] = x
    IN  [m EXCEPT !.root = rank(m.root),
                  !.heap = [i \in 1..Len(ord) |->
                               [val |-> m.heap[ord[i]].val,
                                color |-> m.heap[ord[i]].color,
                                children |-> [p \in {LEFT, RIGHT} |->
                                                 rank(m.heap[ord[i]].children[p])]]],
                  !.anc = <<>>,
                  !.links = [root |-> m.root, heap |-> m.heap]]

opposite_pos(pos) == (pos + 1) % 2

\* history of a call: the branches taken and the rotations done, in order
note(m, event) == [m EXCEPT !.log = Append(m.log, event)]

\* history of a call: the ancestry and the tree as a function is entered
\* ("enter") or left ("return"), and how long the log was by then
frame(m, fn, at) ==
    [m EXCEPT !.frames = Append(m.frames,
                            [fn |-> fn, at |-> at, anc |-> m.anc,
                             root |-> m.root, heap |-> m.heap,
                             seen |-> Len(m.log), panic |-> m.panic])]

Ancestor(node, position) == [node |-> node, position |-> position]

\* Vec::pop on the ancestry
pop(m) == [m EXCEPT !.anc = SubSeq(m.anc, 1, Len(m.anc) - 1)]

\* Vec::push on the ancestry
push(m, a) == [m EXCEPT !.anc = Append(m.anc, a)]

\* ------------------------------------------------------------- rotations
\* rotate_left that leaves the pivot in the parent's right slot
rotate_left_keep_child(m) ==
    IF m.panic THEN m
    ELSE IF Len(m.anc) = 0 THEN [m EXCEPT !.panic = TRUE]
    ELSE
    LET parent == m.anc[Len(m.anc)]
        ancestors == SubSeq(m.anc, 1, Len(m.anc) - 1)
        pivot == m.heap[parent.node].children[RIGHT]
    IN  IF pivot = Nil THEN [m EXCEPT !.panic = TRUE]
        ELSE
        LET rest == m.heap[pivot].children[LEFT]
            h1 == m.heap
            h2 == [h1 EXCEPT ![pivot].children[LEFT] = parent.node]
            h3 == IF Len(ancestors) > 0
                  THEN [h2 EXCEPT ![ancestors[Len(ancestors)].node]
                                       .children[parent.position] = pivot]
                  ELSE h2
            r3 == IF Len(ancestors) > 0 THEN m.root ELSE pivot
        IN  [m EXCEPT !.heap = h3, !.root = r3,
                      !.anc = Append(ancestors, Ancestor(pivot, parent.position)),
                      !.log = Append(m.log, "rotate_left")]

\* rotate_left that pushes the old parent back on the ancestry
rotate_left_stale_top(m) ==
    LET done(m0) ==
            IF m0.panic THEN m0
            ELSE IF Len(m0.anc) = 0 THEN [m0 EXCEPT !.panic = TRUE]
            ELSE
            LET parent == m0.anc[Len(m0.anc)]
                ancestors == SubSeq(m0.anc, 1, Len(m0.anc) - 1)
                pivot == m0.heap[parent.node].children[RIGHT]
            IN  IF pivot = Nil THEN [m0 EXCEPT !.panic = TRUE]
                ELSE
                LET rest == m0.heap[pivot].children[LEFT]
                    h1 == [m0.heap EXCEPT ![parent.node].children[RIGHT] = rest]
                    h2 == [h1 EXCEPT ![pivot].children[LEFT] = parent.node]
                    h3 == IF Len(ancestors) > 0
                          THEN [h2 EXCEPT ![ancestors[Len(ancestors)].node]
                                               .children[parent.position] = pivot]
                          ELSE h2
                    r3 == IF Len(ancestors) > 0 THEN m0.root ELSE pivot
                IN  [m0 EXCEPT !.heap = h3, !.root = r3,
                              !.anc = Append(ancestors, parent),
                              !.log = Append(m0.log, "rotate_left")]
    IN  frame(done(frame(m, "rotate_left", "enter")), "rotate_left", "return")

rotate_left(m) ==
    LET done(m0) ==
            IF m0.panic THEN m0
            ELSE IF Len(m0.anc) = 0 THEN [m0 EXCEPT !.panic = TRUE]
            ELSE
            LET parent == m0.anc[Len(m0.anc)]
                ancestors == SubSeq(m0.anc, 1, Len(m0.anc) - 1)
                pivot == m0.heap[parent.node].children[RIGHT]
            IN  IF pivot = Nil THEN [m0 EXCEPT !.panic = TRUE]
                ELSE
                LET rest == m0.heap[pivot].children[LEFT]
                    h1 == [m0.heap EXCEPT ![parent.node].children[RIGHT] = rest]
                    h2 == [h1 EXCEPT ![pivot].children[LEFT] = parent.node]
                    h3 == IF Len(ancestors) > 0
                          THEN [h2 EXCEPT ![ancestors[Len(ancestors)].node]
                                               .children[parent.position] = pivot]
                          ELSE h2
                    r3 == IF Len(ancestors) > 0 THEN m0.root ELSE pivot
                IN  [m0 EXCEPT !.heap = h3, !.root = r3,
                              !.anc = Append(ancestors, Ancestor(pivot, parent.position)),
                              !.log = Append(m0.log, "rotate_left")]
    IN  frame(done(frame(m, "rotate_left", "enter")), "rotate_left", "return")

\* rotate_right that never writes the root slot
rotate_right_keep_root(m) ==
    IF m.panic THEN m
    ELSE IF Len(m.anc) = 0 THEN [m EXCEPT !.panic = TRUE]
    ELSE
    LET parent == m.anc[Len(m.anc)]
        ancestors == SubSeq(m.anc, 1, Len(m.anc) - 1)
        pivot == m.heap[parent.node].children[LEFT]
    IN  IF pivot = Nil THEN [m EXCEPT !.panic = TRUE]
        ELSE
        LET rest == m.heap[pivot].children[RIGHT]
            h1 == [m.heap EXCEPT ![parent.node].children[LEFT] = rest]
            h2 == [h1 EXCEPT ![pivot].children[RIGHT] = parent.node]
            h3 == IF Len(ancestors) > 0
                  THEN [h2 EXCEPT ![ancestors[Len(ancestors)].node]
                                       .children[parent.position] = pivot]
                  ELSE h2
            r3 == m.root
        IN  [m EXCEPT !.heap = h3, !.root = r3,
                      !.anc = Append(ancestors, Ancestor(pivot, parent.position)),
                      !.log = Append(m.log, "rotate_right")]

rotate_right(m) ==
    LET done(m0) ==
            IF m0.panic THEN m0
            ELSE IF Len(m0.anc) = 0 THEN [m0 EXCEPT !.panic = TRUE]
            ELSE
            LET parent == m0.anc[Len(m0.anc)]
                ancestors == SubSeq(m0.anc, 1, Len(m0.anc) - 1)
                pivot == m0.heap[parent.node].children[LEFT]
            IN  IF pivot = Nil THEN [m0 EXCEPT !.panic = TRUE]
                ELSE
                LET rest == m0.heap[pivot].children[RIGHT]
                    h1 == [m0.heap EXCEPT ![parent.node].children[LEFT] = rest]
                    h2 == [h1 EXCEPT ![pivot].children[RIGHT] = parent.node]
                    h3 == IF Len(ancestors) > 0
                          THEN [h2 EXCEPT ![ancestors[Len(ancestors)].node]
                                               .children[parent.position] = pivot]
                          ELSE h2
                    r3 == IF Len(ancestors) > 0 THEN m0.root ELSE pivot
                IN  [m0 EXCEPT !.heap = h3, !.root = r3,
                              !.anc = Append(ancestors, Ancestor(pivot, parent.position)),
                              !.log = Append(m0.log, "rotate_right")]
    IN  frame(done(frame(m, "rotate_right", "enter")), "rotate_right", "return")

\* ------------------------------------------------------------- insertion
RECURSIVE find_leaf_reversed(_, _, _)
\* find_leaf with the operands of the comparison exchanged
find_leaf_reversed(val, h, ancestors) ==
    LET node == ancestors[Len(ancestors)].node
        r == h[node]
    IN  IF r.val <= val
        THEN IF r.children[LEFT] # Nil
             THEN find_leaf_reversed(val, h,
                      Append(ancestors, Ancestor(r.children[LEFT], LEFT)))
             ELSE ancestors
        ELSE IF r.children[RIGHT] # Nil
             THEN find_leaf_reversed(val, h,
                      Append(ancestors, Ancestor(r.children[RIGHT], RIGHT)))
             ELSE ancestors

RECURSIVE find_leaf(_, _, _)
\* find_leaf that goes right at a node holding an equal key
find_leaf_strict(val, h, ancestors) ==
    LET node == ancestors[Len(ancestors)].node
        r == h[node]
    IN  IF val < r.val
        THEN IF r.children[LEFT] # Nil
             THEN find_leaf(val, h, Append(ancestors, Ancestor(r.children[LEFT], LEFT)))
             ELSE ancestors
        ELSE IF r.children[RIGHT] # Nil
             THEN find_leaf(val, h, Append(ancestors, Ancestor(r.children[RIGHT], RIGHT)))
             ELSE ancestors

find_leaf(val, h, ancestors) ==
    LET node == ancestors[Len(ancestors)].node
        r == h[node]
    IN  IF val <= r.val
        THEN IF r.children[LEFT] # Nil
             THEN find_leaf(val, h, Append(ancestors, Ancestor(r.children[LEFT], LEFT)))
             ELSE ancestors
        ELSE IF r.children[RIGHT] # Nil
             THEN find_leaf(val, h, Append(ancestors, Ancestor(r.children[RIGHT], RIGHT)))
             ELSE ancestors

\* fix_insert's rotation cases without the recolouring
fix_insert_rotate_no_recolor(m, node, parent, gparent) ==
    IF parent.position = RIGHT
    THEN IF node.position = RIGHT
         THEN rotate_left(m)
         ELSE rotate_left(pop(rotate_right(push(m, parent))))
    ELSE IF node.position = LEFT
         THEN rotate_right(m)
         ELSE rotate_right(pop(rotate_left(push(m, parent))))

\* the opposite-side case with the rotation around the grandparent only
fix_insert_rotate_once(m, node, parent, gparent) ==
    IF parent.position = RIGHT
    THEN IF node.position = RIGHT
         THEN rotate_left(note([m EXCEPT !.heap = [m.heap EXCEPT
                                ![parent.node].color = Black,
                                ![gparent.node].color = Red]], "fi_same"))
         ELSE LET m1 == [m EXCEPT !.heap = [m.heap EXCEPT
                                ![node.node].color = Black,
                                ![gparent.node].color = Red]]
              IN  rotate_left(note(m1, "fi_opposite"))
    ELSE IF node.position = LEFT
         THEN rotate_right(note([m EXCEPT !.heap = [m.heap EXCEPT
                                ![parent.node].color = Black,
                                ![gparent.node].color = Red]], "fi_same"))
         ELSE LET m1 == [m EXCEPT !.heap = [m.heap EXCEPT
                                ![node.node].color = Black,
                                ![gparent.node].color = Red]]
              IN  rotate_right(note(m1, "fi_opposite"))

\* fix_insert, lines 149-220: parent Red, uncle Black or absent
fix_insert_rotate(m, node, parent, gparent) ==
    IF parent.position = RIGHT
    THEN IF node.position = RIGHT
         THEN rotate_left(note([m EXCEPT !.heap = [m.heap EXCEPT
                                ![parent.node].color = Black,
                                ![gparent.node].color = Red]], "fi_same"))
         ELSE LET m1 == [m EXCEPT !.heap = [m.heap EXCEPT
                                ![node.node].color = Black,
                                ![gparent.node].color = Red]]
              IN  rotate_left(pop(rotate_right(push(note(m1, "fi_opposite"), parent))))
    ELSE IF node.position = LEFT
         THEN rotate_right(note([m EXCEPT !.heap = [m.heap EXCEPT
                                ![parent.node].color = Black,
                                ![gparent.node].color = Red]], "fi_same"))
         ELSE LET m1 == [m EXCEPT !.heap = [m.heap EXCEPT
                                ![node.node].color = Black,
                                ![gparent.node].color = Red]]
              IN  rotate_right(pop(rotate_left(push(note(m1, "fi_opposite"), parent))))

RECURSIVE fix_insert(_)
\* fix_insert that goes on under a Red uncle with the ancestry as it was
fix_insert_no_pop(m) ==
    LET done(m0) ==
            IF Len(m0.anc) <= 2 THEN note(m0, "fi_stop")
            ELSE
            LET n == Len(m0.anc)
                node == m0.anc[n]
                parent == m0.anc[n - 1]
                gparent == m0.anc[n - 2]
                m1 == pop(pop(m0))
            IN  IF m0.heap[parent.node].color = Black THEN note(m1, "fi_black_parent")
                ELSE
                LET uncle == m0.heap[gparent.node].children[opposite_pos(parent.position)]
                IN  IF uncle # Nil /\ m0.heap[uncle].color = Red
                    THEN fix_insert(note([m0 EXCEPT !.heap = [m0.heap EXCEPT
                                        ![uncle].color = Black,
                                        ![parent.node].color = Black,
                                        ![gparent.node].color = Red]], "fi_red_uncle"))
                    ELSE fix_insert_rotate(m1, node, parent, gparent)
    IN  frame(done(frame(m, "fix_insert", "enter")), "fix_insert", "return")

fix_insert(m) ==
    LET done(m0) ==
            IF Len(m0.anc) <= 2 THEN note(m0, "fi_stop")
            ELSE
            LET n == Len(m0.anc)
                node == m0.anc[n]
                parent == m0.anc[n - 1]
                gparent == m0.anc[n - 2]
                m1 == pop(pop(m0))
            IN  IF m0.heap[parent.node].color = Black THEN note(m1, "fi_black_parent")
                ELSE
                LET uncle == m0.heap[gparent.node].children[opposite_pos(parent.position)]
                IN  IF uncle # Nil /\ m0.heap[uncle].color = Red
                    THEN fix_insert(note([m1 EXCEPT !.heap = [m0.heap EXCEPT
                                        ![uncle].color = Black,
                                        ![parent.node].color = Black,
                                        ![gparent.node].color = Red]], "fi_red_uncle"))
                    ELSE fix_insert_rotate(m1, node, parent, gparent)
    IN  frame(done(frame(m, "fix_insert", "enter")), "fix_insert", "return")

\* add_and_fix that takes an equal key as already stored
add_and_fix_no_duplicate(m, val) ==
    LET ancestors == find_leaf(val, m.heap, m.anc)
        leaf == ancestors[Len(ancestors)].node
        new_one == rc_new(m.heap)
        pos == IF val <= m.heap[leaf].val THEN LEFT ELSE RIGHT
        h1 == [n \in DOMAIN m.heap \cup {new_one} |->
                  IF n = new_one THEN new_node(val, Red) ELSE m.heap[n]]
        h2 == [h1 EXCEPT ![leaf].children[pos] = new_one]
    IN  IF val = m.heap[leaf].val THEN m
        ELSE fix_insert([m EXCEPT !.heap = h2,
                                  !.anc = Append(ancestors, Ancestor(new_one, pos))])

add_and_fix(m, val) ==
    LET ancestors == find_leaf(val, m.heap, m.anc)
        leaf == ancestors[Len(ancestors)].node
        new_one == rc_new(m.heap)
        pos == IF val <= m.heap[leaf].val THEN LEFT ELSE RIGHT
        h1 == [n \in DOMAIN m.heap \cup {new_one} |->
                  IF n = new_one THEN new_node(val, Red) ELSE m.heap[n]]
        h2 == [h1 EXCEPT ![leaf].children[pos] = new_one]
    IN  fix_insert([m EXCEPT !.heap = h2,
                             !.anc = Append(ancestors, Ancestor(new_one, pos))])

\* add without the final recolouring of the root
add_no_root_recolor(m, val) ==
    IF m.root = Nil
    THEN LET n == rc_new(m.heap)
         IN  [m EXCEPT !.root = n,
                       !.heap = [x \in {n} |-> new_node(val, Black)],
                       !.len = m.len + 1]
    ELSE LET m1 == add_and_fix([m EXCEPT !.anc = <<Ancestor(m.root, LEFT)>>], val)
         IN  IF m1.panic THEN m1
             ELSE release([m1 EXCEPT !.len = m1.len + 1])

add(m, val) ==
    IF m.root = Nil
    THEN LET n == rc_new(m.heap)
         IN  [m EXCEPT !.root = n,
                       !.heap = [x \in {n} |-> new_node(val, Black)],
                       !.len = m.len + 1]
    ELSE LET m1 == add_and_fix([m EXCEPT !.anc = <<Ancestor(m.root, LEFT)>>], val)
         IN  IF m1.panic THEN m1
             ELSE IF m1.root = Nil THEN [m1 EXCEPT !.panic = TRUE]
             ELSE release([m1 EXCEPT !.heap = [m1.heap EXCEPT ![m1.root].color = Black],
                                     !.len = m1.len + 1,
                                     !.log = IF m1.heap[m1.root].color = Red
                                             THEN Append(m1.log, "root_was_red")
                                             ELSE m1.log])

\* --------------------------------------------------------------- removal
RECURSIVE find_node_nearest(_, _, _)
\* find_node that reports the node where the descent ends as found
find_node_nearest(val, h, ancestors) ==
    LET node == ancestors[Len(ancestors)].node
        r == h[node]
    IN  IF r.val = val THEN [found |-> TRUE, ancestors |-> ancestors]
        ELSE IF r.val > val
        THEN IF r.children[LEFT] # Nil
             THEN find_node_nearest(val, h,
                      Append(ancestors, Ancestor(r.children[LEFT], LEFT)))
             ELSE [found |-> TRUE, ancestors |-> ancestors]
        ELSE IF r.children[RIGHT] # Nil
             THEN find_node_nearest(val, h,
                      Append(ancestors, Ancestor(r.children[RIGHT], RIGHT)))
             ELSE [found |-> TRUE, ancestors |-> ancestors]

RECURSIVE find_node_swapped(_, _, _)
\* find_node with the Greater and Less arms exchanged
find_node_swapped(val, h, ancestors) ==
    LET node == ancestors[Len(ancestors)].node
        r == h[node]
    IN  IF r.val = val THEN [found |-> TRUE, ancestors |-> ancestors]
        ELSE IF r.val < val
        THEN IF r.children[LEFT] # Nil
             THEN find_node_swapped(val, h,
                      Append(ancestors, Ancestor(r.children[LEFT], LEFT)))
             ELSE [found |-> FALSE, ancestors |-> ancestors]
        ELSE IF r.children[RIGHT] # Nil
             THEN find_node_swapped(val, h,
                      Append(ancestors, Ancestor(r.children[RIGHT], RIGHT)))
             ELSE [found |-> FALSE, ancestors |-> ancestors]

RECURSIVE find_node(_, _, _)
find_node(val, h, ancestors) ==
    LET node == ancestors[Len(ancestors)].node
        r == h[node]
    IN  IF r.val = val THEN [found |-> TRUE, ancestors |-> ancestors]
        ELSE IF r.val > val
        THEN IF r.children[LEFT] # Nil
             THEN find_node(val, h, Append(ancestors, Ancestor(r.children[LEFT], LEFT)))
             ELSE [found |-> FALSE, ancestors |-> ancestors]
        ELSE IF r.children[RIGHT] # Nil
             THEN find_node(val, h, Append(ancestors, Ancestor(r.children[RIGHT], RIGHT)))
             ELSE [found |-> FALSE, ancestors |-> ancestors]

\* find_min_node that stops at the right child
find_min_node_no_descent(h, ancestors) == ancestors

RECURSIVE find_min_node(_, _)
find_min_node(h, ancestors) ==
    LET node == ancestors[Len(ancestors)].node
    IN  IF h[node].children[LEFT] # Nil
        THEN find_min_node(h, Append(ancestors, Ancestor(h[node].children[LEFT], LEFT)))
        ELSE ancestors

\* swap_nodes that leaves each node its own colour
swap_nodes_keep_colors(m, a_i, b_i) ==
    IF m.panic THEN m
    ELSE IF ~(a_i < b_i /\ b_i < Len(m.anc)) THEN [m EXCEPT !.panic = TRUE]
    ELSE
    LET a == m.anc[a_i + 1]
        v1 == m.anc[a_i + 2]
        vN == m.anc[b_i]
        b == m.anc[b_i + 1]
        \* set 'x'
        h1 == IF a_i > 0
              THEN [m.heap EXCEPT ![m.anc[a_i].node].children[a.position] = b.node]
              ELSE m.heap
        r1 == IF a_i > 0 THEN m.root ELSE b.node
        \* save 'j'
        j == h1[a.node].children[opposite_pos(v1.position)]
        \* set both children, 'y' and 'k'
        h2 == [h1 EXCEPT ![a.node].children = h1[b.node].children]
        \* set 'j'
        h3 == [h2 EXCEPT ![b.node].children[opposite_pos(v1.position)] = j]
        \* set 'v1..vN'
        h4 == IF v1.node = b.node
              THEN [h3 EXCEPT ![b.node].children[v1.position] = a.node]
              ELSE LET h3a == [h3 EXCEPT ![b.node].children[v1.position] = v1.node]
                   IN  [h3a EXCEPT ![vN.node].children[b.position] = a.node]
        h5 == h4
    IN  [m EXCEPT !.heap = h5, !.root = r1,
                  !.anc = [m.anc EXCEPT ![a_i + 1].node = b.node,
                                        ![b_i + 1].node = a.node],
                  !.log = Append(m.log, "swap_nodes"),
                  !.swaps = Append(m.swaps,
                                [a |-> a.node, b |-> b.node, adjacent |-> (b_i = a_i + 1),
                                 root |-> m.root, heap |-> m.heap,
                                 root2 |-> r1, heap2 |-> h5])]

\* swap_nodes done as node.rs swap does it: the two keys change places
swap_nodes_values(m, a_i, b_i) ==
    IF m.panic THEN m
    ELSE IF ~(a_i < b_i /\ b_i < Len(m.anc)) THEN [m EXCEPT !.panic = TRUE]
    ELSE
    LET a == m.anc[a_i + 1]
        v1 == m.anc[a_i + 2]
        vN == m.anc[b_i]
        b == m.anc[b_i + 1]
        h5 == [m.heap EXCEPT ![a.node].val = m.heap[b.node].val,
                             ![b.node].val = m.heap[a.node].val]
        r1 == m.root
    IN  [m EXCEPT !.heap = h5, !.root = r1,
                  !.log = Append(m.log, "swap_nodes"),
                  !.swaps = Append(m.swaps,
                                [a |-> a.node, b |-> b.node, adjacent |-> (b_i = a_i + 1),
                                 root |-> m.root, heap |-> m.heap,
                                 root2 |-> r1, heap2 |-> h5])]

\* swap_nodes that does not hand a's other child over to b
swap_nodes_drop_left(m, a_i, b_i) ==
    IF m.panic THEN m
    ELSE IF ~(a_i < b_i /\ b_i < Len(m.anc)) THEN [m EXCEPT !.panic = TRUE]
    ELSE
    LET a == m.anc[a_i + 1]
        v1 == m.anc[a_i + 2]
        vN == m.anc[b_i]
        b == m.anc[b_i + 1]
        \* set 'x'
        h1 == IF a_i > 0
              THEN [m.heap EXCEPT ![m.anc[a_i].node].children[a.position] = b.node]
              ELSE m.heap
        r1 == IF a_i > 0 THEN m.root ELSE b.node
        \* save 'j'
        j == h1[a.node].children[opposite_pos(v1.position)]
        \* set both children, 'y' and 'k'
        h2 == [h1 EXCEPT ![a.node].children = h1[b.node].children]
        h3 == h2
        \* set 'v1..vN'
        h4 == IF v1.node = b.node
              THEN [h3 EXCEPT ![b.node].children[v1.position] = a.node]
              ELSE LET h3a == [h3 EXCEPT ![b.node].children[v1.position] = v1.node]
                   IN  [h3a EXCEPT ![vN.node].children[b.position] = a.node]
        \* swap colors together with references
        h5 == [h4 EXCEPT ![a.node].color = h4[b.node].color,
                         ![b.node].color = h4[a.node].color]
    IN  [m EXCEPT !.heap = h5, !.root = r1,
                  !.anc = [m.anc EXCEPT ![a_i + 1].node = b.node,
                                        ![b_i + 1].node = a.node],
                  !.log = Append(m.log, "swap_nodes"),
                  !.swaps = Append(m.swaps,
                                [a |-> a.node, b |-> b.node, adjacent |-> (b_i = a_i + 1),
                                 root |-> m.root, heap |-> m.heap,
                                 root2 |-> r1, heap2 |-> h5])]

\* a_i and b_i are the 0-based indices of the code; sequences start at 1
swap_nodes(m, a_i, b_i) ==
    LET done(m0) ==
            IF m0.panic THEN m0
            ELSE IF ~(a_i < b_i /\ b_i < Len(m0.anc)) THEN [m0 EXCEPT !.panic = TRUE]
            ELSE
            LET a == m0.anc[a_i + 1]
                v1 == m0.anc[a_i + 2]
                vN == m0.anc[b_i]
                b == m0.anc[b_i + 1]
                \* set 'x'
                h1 == IF a_i > 0
                      THEN [m0.heap EXCEPT ![m0.anc[a_i].node].children[a.position] = b.node]
                      ELSE m0.heap
                r1 == IF a_i > 0 THEN m0.root ELSE b.node
                \* save 'j'
                j == h1[a.node].children[opposite_pos(v1.position)]
                \* set both children, 'y' and 'k'
                h2 == [h1 EXCEPT ![a.node].children = h1[b.node].children]
                \* set 'j'
                h3 == [h2 EXCEPT ![b.node].children[opposite_pos(v1.position)] = j]
                \* set 'v1..vN'
                h4 == IF v1.node = b.node
                      THEN [h3 EXCEPT ![b.node].children[v1.position] = a.node]
                      ELSE LET h3a == [h3 EXCEPT ![b.node].children[v1.position] = v1.node]
                           IN  [h3a EXCEPT ![vN.node].children[b.position] = a.node]
                \* swap colors together with references
                h5 == [h4 EXCEPT ![a.node].color = h4[b.node].color,
                                 ![b.node].color = h4[a.node].color]
            IN  [m0 EXCEPT !.heap = h5, !.root = r1,
                          !.anc = [m0.anc EXCEPT ![a_i + 1].node = b.node,
                                                ![b_i + 1].node = a.node],
                          !.log = Append(m0.log, "swap_nodes"),
                          !.swaps = Append(m0.swaps,
                                        [a |-> a.node, b |-> b.node, adjacent |-> (b_i = a_i + 1),
                                         root |-> m0.root, heap |-> m0.heap,
                                         root2 |-> r1, heap2 |-> h5])]
    IN  frame(done(frame(m, "swap_nodes", "enter")), "swap_nodes", "return")

\* red_children with the two bits of the mask exchanged
red_children_swapped(h, node) ==
    LET l == h[node].children[LEFT]
        r == h[node].children[RIGHT]
        mask1 == IF r # Nil /\ h[r].color = Red THEN 1 ELSE 0
        mask2 == mask1 * 2
    IN  IF l # Nil /\ h[l].color = Red THEN mask2 + 1 ELSE mask2

red_children(h, node) ==
    LET l == h[node].children[LEFT]
        r == h[node].children[RIGHT]
        mask1 == IF l # Nil /\ h[l].color = Red THEN 1 ELSE 0
        mask2 == mask1 * 2
    IN  IF r # Nil /\ h[r].color = Red THEN mask2 + 1 ELSE mask2

\* fix_remove, lines 474-595: sibling Black, one or both nephews Red
fix_remove_rotate(m, sibling_node, sibling_position, nephew_mask) ==
    LET parent == m.anc[Len(m.anc)]
        pcolor == m.heap[parent.node].color
    IN  IF sibling_position = LEFT
        THEN IF nephew_mask = 3 \/ nephew_mask = 2
             THEN LET h1 == [m.heap EXCEPT ![sibling_node].color = pcolor]
                      nephew == h1[sibling_node].children[LEFT]
                      h2 == [h1 EXCEPT ![nephew].color = Black]
                      h3 == [h2 EXCEPT ![parent.node].color = Black]
                  IN  IF nephew = Nil THEN [m EXCEPT !.panic = TRUE]
                      ELSE rotate_right(note([m EXCEPT !.heap = h3], "fr_single"))
             ELSE LET nephew == m.heap[sibling_node].children[RIGHT]
                      h1 == [m.heap EXCEPT ![nephew].color = pcolor]
                      h2 == [h1 EXCEPT ![parent.node].color = Black]
                      m1 == push(note([m EXCEPT !.heap = h2], "fr_double"),
                                 Ancestor(sibling_node, LEFT))
                  IN  IF nephew = Nil THEN [m EXCEPT !.panic = TRUE]
                      ELSE rotate_right(pop(rotate_left(m1)))
        ELSE IF nephew_mask = 3 \/ nephew_mask = 1
             THEN LET h1 == [m.heap EXCEPT ![sibling_node].color = pcolor]
                      nephew == h1[sibling_node].children[RIGHT]
                      h2 == [h1 EXCEPT ![nephew].color = Black]
                      h3 == [h2 EXCEPT ![parent.node].color = Black]
                  IN  IF nephew = Nil THEN [m EXCEPT !.panic = TRUE]
                      ELSE rotate_left(note([m EXCEPT !.heap = h3], "fr_single"))
             ELSE LET nephew == m.heap[sibling_node].children[LEFT]
                      h1 == [m.heap EXCEPT ![nephew].color = pcolor]
                      h2 == [h1 EXCEPT ![parent.node].color = Black]
                      m1 == push(note([m EXCEPT !.heap = h2], "fr_double"),
                                 Ancestor(sibling_node, RIGHT))
                  IN  IF nephew = Nil THEN [m EXCEPT !.panic = TRUE]
                      ELSE rotate_left(pop(rotate_right(m1)))

\* the Red-sibling case without the recolouring of parent and sibling
fix_remove_red_sibling_no_recolor(m, sibling_node, sibling_position) ==
    LET parent_node == m.anc[Len(m.anc)].node
        m1 == IF sibling_position = LEFT THEN rotate_right(m) ELSE rotate_left(m)
    IN  push(m1, Ancestor(parent_node, opposite_pos(sibling_position)))

\* the Red-sibling case that does not push the parent back on the ancestry
fix_remove_red_sibling_no_push(m, sibling_node, sibling_position) ==
    LET parent_node == m.anc[Len(m.anc)].node
        h1 == [m.heap EXCEPT ![parent_node].color = Red]
        h2 == [h1 EXCEPT ![sibling_node].color = Black]
        m0 == note([m EXCEPT !.heap = h2], "fr_red_sibling")
        m1 == IF sibling_position = LEFT THEN rotate_right(m0) ELSE rotate_left(m0)
    IN  m1

\* fix_remove, lines 596-631: sibling Red, up to the recursive call
fix_remove_red_sibling(m, sibling_node, sibling_position) ==
    LET parent_node == m.anc[Len(m.anc)].node
        h1 == [m.heap EXCEPT ![parent_node].color = Red]
        h2 == [h1 EXCEPT ![sibling_node].color = Black]
        m0 == note([m EXCEPT !.heap = h2], "fr_red_sibling")
        m1 == IF sibling_position = LEFT THEN rotate_right(m0) ELSE rotate_left(m0)
    IN  push(m1, Ancestor(parent_node, opposite_pos(sibling_position)))

RECURSIVE fix_remove(_, _)
fix_remove(m, sibling_position) ==
    LET done(m0) ==
            IF m0.panic THEN m0
            ELSE IF Len(m0.anc) = 0 THEN note(m0, "fr_root")
            ELSE
            LET parent == m0.anc[Len(m0.anc)]
                sibling == m0.heap[parent.node].children[sibling_position]
            IN  IF sibling # Nil
                THEN IF m0.heap[sibling].color = Black
                     THEN LET nephew_mask == red_children(m0.heap, sibling)
                          IN  IF nephew_mask = 0
                              THEN LET h1 == [m0.heap EXCEPT ![sibling].color = Red]
                                   IN  IF h1[parent.node].color = Black
                                       THEN fix_remove(pop(note([m0 EXCEPT !.heap = h1],
                                                                "fr_black_up")),
                                                       opposite_pos(parent.position))
                                       ELSE pop(note([m0 EXCEPT !.heap =
                                                    [h1 EXCEPT ![parent.node].color = Black]],
                                                     "fr_black_end"))
                              ELSE fix_remove_rotate(m0, sibling, sibling_position, nephew_mask)
                     ELSE fix_remove(fix_remove_red_sibling(m0, sibling, sibling_position),
                                     sibling_position)
                ELSE fix_remove(pop(note(m0, "fr_absent")), opposite_pos(parent.position))
    IN  frame(done(frame(m, "fix_remove", "enter")), "fix_remove", "return")

\* extract_node that empties the parent's slot instead of moving the child up
extract_node_drop_child(m, child) ==
    IF m.panic THEN m
    ELSE
    LET node == m.anc[Len(m.anc)]
        child_node == m.heap[node.node].children[child]
        h1 == [m.heap EXCEPT ![node.node].children[child] = Nil]
        m1 == pop([m EXCEPT !.heap = h1])
    IN  IF Len(m1.anc) = 0
        THEN IF child_node # Nil
             THEN [m1 EXCEPT !.root = child_node,
                             !.heap = [h1 EXCEPT ![child_node].color = Black]]
             ELSE [m1 EXCEPT !.root = Nil]
        ELSE
        LET parent == m1.anc[Len(m1.anc)]
            h2 == [h1 EXCEPT ![parent.node].children[node.position] = Nil]
            m2 == [m1 EXCEPT !.heap = h2]
        IN  IF child_node # Nil
            THEN IF h2[node.node].color = Red \/ h2[child_node].color = Red
                 THEN [m2 EXCEPT !.heap = [h2 EXCEPT ![child_node].color = Black]]
                 ELSE fix_remove(m2, opposite_pos(node.position))
            ELSE IF h2[node.node].color = Black
                 THEN fix_remove(m2, opposite_pos(node.position))
                 ELSE m2

\* extract_node that calls fix_remove for a Red leaf as well
extract_node_always_fix(m, child) ==
    LET done(m0) ==
            IF m0.panic THEN m0
            ELSE IF Len(m0.anc) = 0 THEN [m0 EXCEPT !.panic = TRUE]
            ELSE
            LET node == m0.anc[Len(m0.anc)]
                child_node == m0.heap[node.node].children[child]
                h1 == [m0.heap EXCEPT ![node.node].children[child] = Nil]
                m1 == pop([m0 EXCEPT !.heap = h1,
                                    !.out = node.node,
                                    !.held = Cardinality({p \in {LEFT, RIGHT} :
                                                 m0.heap[node.node].children[p] # Nil}),
                                    !.log = Append(m0.log, "extract_node")])
            IN  IF Len(m1.anc) = 0
                THEN IF child_node # Nil
                     THEN [m1 EXCEPT !.root = child_node,
                                     !.heap = [h1 EXCEPT ![child_node].color = Black]]
                     ELSE [m1 EXCEPT !.root = Nil]
                ELSE
                LET parent == m1.anc[Len(m1.anc)]
                    h2 == [h1 EXCEPT ![parent.node].children[node.position] = child_node]
                    m2 == [m1 EXCEPT !.heap = h2]
                IN  IF child_node # Nil
                    THEN IF h2[node.node].color = Red \/ h2[child_node].color = Red
                         THEN [m2 EXCEPT !.heap = [h2 EXCEPT ![child_node].color = Black]]
                         ELSE fix_remove(m2, opposite_pos(node.position))
                    ELSE fix_remove(m2, opposite_pos(node.position))
    IN  frame(done(frame(m, "extract_node", "enter")), "extract_node", "return")

\* extracts node from the tree, pops last ancestor from ancestors
extract_node(m, child) ==
    LET done(m0) ==
            IF m0.panic THEN m0
            ELSE IF Len(m0.anc) = 0 THEN [m0 EXCEPT !.panic = TRUE]
            ELSE
            LET node == m0.anc[Len(m0.anc)]
                child_node == m0.heap[node.node].children[child]
                h1 == [m0.heap EXCEPT ![node.node].children[child] = Nil]
                m1 == pop([m0 EXCEPT !.heap = h1,
                                    !.out = node.node,
                                    !.held = Cardinality({p \in {LEFT, RIGHT} :
                                                 m0.heap[node.node].children[p] # Nil}),
                                    !.log = Append(m0.log, "extract_node")])
            IN  IF Len(m1.anc) = 0
                THEN IF child_node # Nil
                     THEN [m1 EXCEPT !.root = child_node,
                                     !.heap = [h1 EXCEPT ![child_node].color = Black]]
                     ELSE [m1 EXCEPT !.root = Nil]
                ELSE
                LET parent == m1.anc[Len(m1.anc)]
                    h2 == [h1 EXCEPT ![parent.node].children[node.position] = child_node]
                    m2 == [m1 EXCEPT !.heap = h2]
                IN  IF child_node # Nil
                    THEN IF h2[node.node].color = Red \/ h2[child_node].color = Red
                         THEN [m2 EXCEPT !.heap = [h2 EXCEPT ![child_node].color = Black]]
                         ELSE fix_remove(m2, opposite_pos(node.position))
                    ELSE IF h2[node.node].color = Black
                         THEN fix_remove(m2, opposite_pos(node.position))
                         ELSE m2
    IN  frame(done(frame(m, "extract_node", "enter")), "extract_node", "return")

RECURSIVE remove_last(_)
\* remove_last that takes a node with two children out where it stands
remove_last_no_swap(m) ==
    IF m.panic THEN m
    ELSE
    LET lastn == m.anc[Len(m.anc)]
        has_left == m.heap[lastn.node].children[LEFT] # Nil
        has_right == m.heap[lastn.node].children[RIGHT] # Nil
    IN  IF has_left
        THEN IF has_right
             THEN extract_node(note(m, "rl_two_children"), RIGHT)
             ELSE extract_node(note(m, "rl_left_child"), LEFT)
        ELSE IF has_right
             THEN extract_node(note(m, "rl_right_child"), RIGHT)
             ELSE extract_node(note(m, "rl_no_child"), LEFT)

remove_last(m) ==
    IF m.panic THEN m
    ELSE IF Len(m.anc) = 0 THEN [m EXCEPT !.panic = TRUE]
    ELSE
    LET lastn == m.anc[Len(m.anc)]
        has_left == m.heap[lastn.node].children[LEFT] # Nil
        has_right == m.heap[lastn.node].children[RIGHT] # Nil
    IN  IF has_left
        THEN IF has_right
             THEN LET old_n == Len(m.anc)
                      child == m.heap[lastn.node].children[RIGHT]
                      ancestors == find_min_node(m.heap,
                                       Append(m.anc, Ancestor(child, RIGHT)))
                      new_n == Len(ancestors)
                  IN  remove_last(swap_nodes(note([m EXCEPT !.anc = ancestors],
                                                  "rl_two_children"),
                                             old_n - 1, new_n - 1))
             ELSE extract_node(note(m, "rl_left_child"), LEFT)
        ELSE IF has_right
             THEN extract_node(note(m, "rl_right_child"), RIGHT)
             ELSE extract_node(note(m, "rl_no_child"), LEFT)

\* remove without the decrement of len
remove_keep_len(m, val) ==
    IF m.root = Nil THEN [m EXCEPT !.ret = FALSE]
    ELSE
    LET f == find_node(val, m.heap, <<Ancestor(m.root, LEFT)>>)
    IN  IF ~f.found THEN [m EXCEPT !.ret = FALSE]
        ELSE LET m1 == remove_last([m EXCEPT !.anc = f.ancestors])
             IN  IF m1.panic THEN m1
                 ELSE release([m1 EXCEPT !.ret = TRUE])

remove(m, val) ==
    IF m.root = Nil THEN [m EXCEPT !.ret = FALSE]
    ELSE
    LET f == find_node(val, m.heap, <<Ancestor(m.root, LEFT)>>)
    IN  IF ~f.found THEN [m EXCEPT !.ret = FALSE]
        ELSE LET m1 == remove_last([m EXCEPT !.anc = f.ancestors,
                                             !.found = f.ancestors[Len(f.ancestors)].node])
             IN  IF m1.panic THEN m1
                 ELSE release([m1 EXCEPT !.len = m1.len - 1, !.ret = TRUE])

\* ------------------------------------------------------------- validator
RECURSIVE black_height(_, _)
\* black_height that counts a Red node with two children as a Black one
black_height_count_red(h, node) ==
    IF node = Nil THEN [ok |-> TRUE, val |-> 0]
    ELSE
    LET left == h[node].children[LEFT]
        right == h[node].children[RIGHT]
    IN  IF left # Nil /\ right # Nil
        THEN IF h[node].color = Red /\ (h[left].color = Red \/ h[right].color = Red)
             THEN [ok |-> FALSE, val |-> 0]
             ELSE
             LET plus == 1
                 l_black == black_height(h, left)
             IN  IF ~l_black.ok THEN l_black
                 ELSE LET r_black == black_height(h, right)
                      IN  IF ~r_black.ok THEN r_black
                          ELSE IF l_black.val = r_black.val
                               THEN [ok |-> TRUE, val |-> plus + l_black.val]
                               ELSE [ok |-> FALSE, val |-> 0]
        ELSE
        LET add1 == IF left # Nil /\ h[left].color = Black THEN 1 ELSE 0
            add2 == IF right # Nil /\ h[right].color = Black THEN add1 + 1 ELSE add1
            add3 == IF h[node].color = Black THEN add2 + 1 ELSE add2
        IN  [ok |-> TRUE, val |-> add3]

\* Result<u32, String> as [ok, val]; the level only goes into the message
black_height(h, node) ==
    IF node = Nil THEN [ok |-> TRUE, val |-> 0]
    ELSE
    LET left == h[node].children[LEFT]
        right == h[node].children[RIGHT]
    IN  IF left # Nil /\ right # Nil
        THEN IF h[node].color = Red /\ (h[left].color = Red \/ h[right].color = Red)
             THEN [ok |-> FALSE, val |-> 0]
             ELSE
             LET plus == IF h[node].color = Red THEN 0 ELSE 1
                 l_black == black_height(h, left)
             IN  IF ~l_black.ok THEN l_black
                 ELSE LET r_black == black_height(h, right)
                      IN  IF ~r_black.ok THEN r_black
                          ELSE IF l_black.val = r_black.val
                               THEN [ok |-> TRUE, val |-> plus + l_black.val]
                               ELSE [ok |-> FALSE, val |-> 0]
        ELSE
        LET add1 == IF left # Nil /\ h[left].color = Black THEN 1 ELSE 0
            add2 == IF right # Nil /\ h[right].color = Black THEN add1 + 1 ELSE add1
            add3 == IF h[node].color = Black THEN add2 + 1 ELSE add2
        IN  [ok |-> TRUE, val |-> add3]

is_valid(h, r) ==
    IF r # Nil
    THEN IF h[r].color = Red THEN FALSE
         ELSE LET l_black == black_height(h, h[r].children[LEFT])
                  r_black == black_height(h, h[r].children[RIGHT])
              IN  IF ~l_black.ok THEN FALSE
                  ELSE IF ~r_black.ok THEN FALSE
                  ELSE TRUE
    ELSE TRUE

\* ------------------------------------------------------- the public calls
\* the tree as the record the operations work on
Tree == [root |-> root, heap |-> heap, len |-> len, panic |-> panic,
         anc |-> <<>>, ret |-> FALSE,
         rename |-> TRUE, log |-> <<>>, swaps |-> <<>>, found |-> Nil,
         out |-> Nil, held |-> 0, links |-> [root |-> root, heap |-> heap],
         frames |-> <<>>]

NoKeys == [k \in Keys |-> 0]

\* nothing recorded about a call
NoTrace ==
    [op |-> "none", val |-> 0, ret |-> FALSE, log |-> <<>>,
     found |-> Nil, out |-> Nil, held |-> 0, swaps |-> <<>>,
     before |-> [root |-> Nil, heap |-> <<>>],
     links |-> [root |-> Nil, heap |-> <<>>],
     steps |-> <<>>, frames |-> <<>>]

\* RbTree::new()
Init ==
    /\ root = Nil
    /\ heap = <<>>
    /\ len = 0
    /\ panic = FALSE
    /\ trace = NoTrace
    /\ verdict = "none"
    /\ script = 0
    /\ last = [op |-> "new", val |-> 0, ret |-> FALSE]
    /\ adds = 0
    /\ removed = 0
    /\ phase = "free"
    /\ pending = NoKeys

\* t.add(val)
Add(val) ==
    /\ ~panic
    /\ adds < MaxAdds
    /\ phase \in {"free", "add"}
    /\ \E m \in {add(Tree, val)} :
           /\ root' = m.root
           /\ heap' = m.heap
           /\ len' = m.len
           /\ panic' = m.panic
    /\ last' = [op |-> "add", val |-> val, ret |-> FALSE]
    /\ adds' = adds + 1
    /\ pending' = IF phase = "add" THEN [pending EXCEPT ![val] = @ + 1] ELSE pending
    /\ UNCHANGED <<removed, phase, trace, verdict, script>>

\* t.remove(&val)
Remove(val) ==
    /\ ~panic
    /\ phase = "free"
    /\ \E m \in {remove(Tree, val)} :
           /\ root' = m.root
           /\ heap' = m.heap
           /\ len' = m.len
           /\ panic' = m.panic
           /\ last' = [op |-> "remove", val |-> val, ret |-> m.ret]
           /\ removed' = IF m.ret THEN removed + 1 ELSE removed
    /\ UNCHANGED <<adds, phase, pending, trace, verdict, script>>

\* round trip: remove one of the keys that were added and not yet removed
RemoveAdded(val) ==
    /\ ~panic
    /\ phase \in {"add", "remove"}
    /\ pending[val] > 0
    /\ \E m \in {remove(Tree, val)} :
           /\ root' = m.root
           /\ heap' = m.heap
           /\ len' = m.len
           /\ panic' = m.panic
           /\ last' = [op |-> "remove", val |-> val, ret |-> m.ret]
           /\ removed' = IF m.ret THEN removed + 1 ELSE removed
    /\ phase' = "remove"
    /\ pending' = [pending EXCEPT ![val] = @ - 1]
    /\ UNCHANGED <<adds, trace, verdict, script>>

Next ==
    \/ \E val \in Keys : Add(val)
    \/ \E val \in Keys : Remove(val)

Spec == Init /\ [][Next]_vars

\* the round trip of test_remove: add a list of keys, then remove them all
InitRoundTrip ==
    /\ root = Nil
    /\ heap = <<>>
    /\ len = 0
    /\ panic = FALSE
    /\ trace = NoTrace
    /\ verdict = "none"
    /\ script = 0
    /\ last = [op |-> "new", val |-> 0, ret |-> FALSE]
    /\ adds = 0
    /\ removed = 0
    /\ phase = "add"
    /\ pending = NoKeys

NextRoundTrip ==
    \/ \E val \in Keys : Add(val)
    \/ \E val \in Keys : RemoveAdded(val)

SpecRoundTrip == InitRoundTrip /\ [][NextRoundTrip]_vars

\* ------------------------------------------------------- main.rs: main()
\* the keys main adds, in the order of the statements
MainAdds == <<3, 5, 1, 7, 13, 15, 4, 17, 9, 11, 2, 21>>
MainRemoved == 7

\* statement numbers of main after the adds
AtRemove == Len(MainAdds)
AtPrint == AtRemove + 1
AtLen == AtPrint + 1
MainDone == AtLen + 1

\* t.add(3); ... t.add(21);
MainAdd ==
    /\ ~panic
    /\ script < AtRemove
    /\ \E m \in {add(Tree, MainAdds[script + 1])} :
           /\ root' = m.root
           /\ heap' = m.heap
           /\ len' = m.len
           /\ panic' = m.panic
    /\ last' = [op |-> "add", val |-> MainAdds[script + 1], ret |-> FALSE]
    /\ script' = script + 1
    /\ UNCHANGED <<adds, removed, phase, pending, trace, verdict>>

\* let _ok = t.remove(&v);
MainRemove ==
    /\ ~panic
    /\ script = AtRemove
    /\ \E m \in {remove(Tree, MainRemoved)} :
           /\ root' = m.root
           /\ heap' = m.heap
           /\ len' = m.len
           /\ panic' = m.panic
           /\ last' = [op |-> "remove", val |-> MainRemoved, ret |-> m.ret]
           /\ trace' = [op |-> "remove", val |-> MainRemoved, log |-> m.log]
    /\ script' = script + 1
    /\ UNCHANGED <<adds, removed, phase, pending, verdict>>

\* t.print(): the last line printed is the validator's word
MainPrint ==
    /\ ~panic
    /\ script = AtPrint
    /\ verdict' = IF is_valid(heap, root) THEN "valid" ELSE "NOT valid"
    /\ script' = script + 1
    /\ UNCHANGED <<root, heap, len, panic, last, adds, removed, phase, pending, trace>>

\* println!("RbTree len is: {}", t.len());
MainLen ==
    /\ ~panic
    /\ script = AtLen
    /\ last' = [op |-> "len", val |-> len, ret |-> last.ret]
    /\ script' = script + 1
    /\ UNCHANGED <<root, heap, len, panic, adds, removed, phase, pending, trace, verdict>>

\* the scenario carried on the way test_remove does: the keys still in the
\* tree are removed in any order and the validator runs after each remove
MainDrain(val) ==
    /\ ~panic
    /\ script >= MainDone
    /\ \E m \in {remove(Tree, val)} :
           /\ m.ret
           /\ root' = m.root
           /\ heap' = m.heap
           /\ len' = m.len
           /\ panic' = m.panic
           /\ last' = [op |-> "remove", val |-> val, ret |-> m.ret]
           /\ trace' = [op |-> "remove", val |-> val, log |-> m.log]
           /\ verdict' = IF is_valid(m.heap, m.root) THEN "valid" ELSE "NOT valid"
    /\ script' = script + 1
    /\ UNCHANGED <<adds, removed, phase, pending>>

NextMain ==
    \/ MainAdd
    \/ MainRemove
    \/ MainPrint
    \/ MainLen
    \/ \E i \in 1..Len(MainAdds) : MainDrain(MainAdds[i])

SpecMain == Init /\ [][NextMain]_vars

\* --------------------------------------- calls, their branches followed
\* the entries into fix_insert and fix_remove during a call: the length of
\* the ancestry handed in and the length of the log by then
Entries(m) ==
    LET e == SelectSeq(m.frames, LAMBDA f : f.at = "enter" /\
                                            f.fn \in {"fix_insert", "fix_remove"})
    IN  [i \in 1..Len(e) |-> [fn |-> e[i].fn, n |-> Len(e[i].anc), seen |-> e[i].seen]]

\* t.add(val), with the branches it took
AddSteps(val) ==
    /\ ~panic
    /\ adds < MaxAdds
    /\ \E m \in {add(Tree, val)} :
           /\ root' = m.root
           /\ heap' = m.heap
           /\ len' = m.len
           /\ panic' = m.panic
           /\ trace' = [op |-> "add", log |-> m.log, held |-> m.held,
                        steps |-> Entries(m)]
    /\ adds' = adds + 1
    /\ UNCHANGED <<last, removed, phase, pending, verdict, script>>

\* t.remove(&val), with the branches it took
RemoveSteps(val) ==
    /\ ~panic
    /\ \E m \in {remove(Tree, val)} :
           /\ root' = m.root
           /\ heap' = m.heap
           /\ len' = m.len
           /\ panic' = m.panic
           /\ trace' = [op |-> "remove", log |-> m.log, held |-> m.held,
                        steps |-> Entries(m)]
    /\ UNCHANGED <<last, adds, removed, phase, pending, verdict, script>>

NextSteps ==
    \/ \E val \in Keys : AddSteps(val)
    \/ \E val \in Keys : RemoveSteps(val)

SpecSteps == Init /\ [][NextSteps]_vars

\* ------------------------------------------- calls, node objects followed
\* what a call did, for the claims about what happens inside one call
History(op, val, m) ==
    [op |-> op, val |-> val, ret |-> m.ret, log |-> m.log,
     found |-> m.found, out |-> m.out, held |-> m.held, swaps |-> m.swaps,
     before |-> [root |-> root, heap |-> heap], links |-> m.links,
     steps |-> Entries(m), frames |-> m.frames]

\* t.add(val), every Rc keeping its address
AddObject(val) ==
    /\ ~panic
    /\ adds < MaxObjects
    /\ \E m \in {add([Tree EXCEPT !.rename = FALSE], val)} :
           /\ root' = m.root
           /\ heap' = m.heap
           /\ len' = m.len
           /\ panic' = m.panic
           /\ trace' = History("add", val, m)
    /\ adds' = adds + 1
    /\ UNCHANGED <<last, removed, phase, pending, verdict, script>>

\* t.remove(&val), every Rc keeping its address
RemoveObject(val) ==
    /\ ~panic
    /\ \E m \in {remove([Tree EXCEPT !.rename = FALSE], val)} :
           /\ root' = m.root
           /\ heap' = m.heap
           /\ len' = m.len
           /\ panic' = m.panic
           /\ trace' = History("remove", val, m)
    /\ UNCHANGED <<last, adds, removed, phase, pending, verdict, script>>

NextObjects ==
    \/ \E val \in Keys : AddObject(val)
    \/ \E val \in Keys : RemoveObject(val)

SpecObjects == Init /\ [][NextObjects]_vars

\* ------------------------------- the validator and the rotations alone
RECURSIVE Shapes(_, _)
\* every binary tree over the handles lo..hi in in-order, every colouring;
\* the key of a node is its handle
Shapes(lo, hi) ==
    IF lo > hi THEN {[root |-> Nil, heap |-> <<>>]}
    ELSE UNION {{[root |-> r,
                  heap |-> [n \in lo..hi |->
                              IF n < r THEN L.heap[n]
                              ELSE IF n > r THEN R.heap[n]
                              ELSE [val |-> r, color |-> c,
                                    children |-> [p \in {LEFT, RIGHT} |->
                                        IF p = LEFT THEN L.root ELSE R.root]]]]
                 : L \in Shapes(lo, r - 1), R \in Shapes(r + 1, hi),
                   c \in {Red, Black}}
               : r \in lo..hi}

InitShapes ==
    /\ \E n \in 0..MaxNodes : \E t \in Shapes(1, n) :
           /\ root = t.root
           /\ heap = t.heap
           /\ len = n
    /\ panic = FALSE
    /\ last = [op |-> "new", val |-> 0, ret |-> FALSE]
    /\ adds = 0
    /\ removed = 0
    /\ phase = "free"
    /\ pending = NoKeys
    /\ trace = NoTrace
    /\ verdict = "none"
    /\ script = 0

\* is_valid on the tree, and black_height on each of its subtrees
Validate ==
    /\ verdict = "none"
    /\ verdict' = IF is_valid(heap, root) THEN "valid" ELSE "NOT valid"
    /\ trace' = [op |-> "is_valid", val |-> 0, log |-> <<>>,
                 heights |-> [n \in DOMAIN heap |-> black_height(heap, n)]]
    /\ UNCHANGED <<root, heap, len, panic, last, adds, removed, phase, pending, script>>

\* rotate_left with the node holding val last in the ancestry
RotateLeft(val) ==
    /\ ~panic
    /\ root # Nil
    /\ \E f \in {find_node(val, heap, <<Ancestor(root, LEFT)>>)} :
           /\ f.found
           /\ heap[f.ancestors[Len(f.ancestors)].node].children[RIGHT] # Nil
           /\ \E m \in {rotate_left([Tree EXCEPT !.anc = f.ancestors])} :
                  /\ root' = m.root
                  /\ heap' = m.heap
                  /\ panic' = m.panic
                  /\ trace' = [op |-> "rotate_left", val |-> val, log |-> m.log,
                               ancestors |-> f.ancestors, after |-> m.anc]
    /\ verdict' = "none"
    /\ UNCHANGED <<len, last, adds, removed, phase, pending, script>>

\* rotate_right with the node holding val last in the ancestry
RotateRight(val) ==
    /\ ~panic
    /\ root # Nil
    /\ \E f \in {find_node(val, heap, <<Ancestor(root, LEFT)>>)} :
           /\ f.found
           /\ heap[f.ancestors[Len(f.ancestors)].node].children[LEFT] # Nil
           /\ \E m \in {rotate_right([Tree EXCEPT !.anc = f.ancestors])} :
                  /\ root' = m.root
                  /\ heap' = m.heap
                  /\ panic' = m.panic
                  /\ trace' = [op |-> "rotate_right", val |-> val, log |-> m.log,
                               ancestors |-> f.ancestors, after |-> m.anc]
    /\ verdict' = "none"
    /\ UNCHANGED <<len, last, adds, removed, phase, pending, script>>

NextShapes ==
    \/ Validate
    \/ \E val \in 1..MaxNodes : RotateLeft(val)
    \/ \E val \in 1..MaxNodes : RotateRight(val)

SpecShapes == InitShapes /\ [][NextShapes]_vars

\* ------------------------------------------------- observations of a tree
InOrderKeys == [i \in 1..Len(InOrder(heap, root)) |-> heap[InOrder(heap, root)[i]].val]

RECURSIVE BlackPaths(_, _)
\* the set of Black-node counts over all paths from slot n down to an empty slot
BlackPaths(h, n) ==
    IF n = Nil THEN {0}
    ELSE LET add1 == IF h[n].color = Black THEN 1 ELSE 0
         IN  {c + add1 : c \in BlackPaths(h, h[n].children[LEFT])
                                  \cup BlackPaths(h, h[n].children[RIGHT])}

\* number of nodes in the tree holding key k
Count(h, r, k) == Cardinality({n \in Reach(h, r) : h[n].val = k})

TypeOK ==
    /\ root \in DOMAIN heap \cup {Nil}
    /\ len \in Int
    /\ panic \in BOOLEAN
    /\ \A n \in DOMAIN heap :
          /\ heap[n].val \in Keys
          /\ heap[n].color \in {Red, Black}
          /\ \A p \in {LEFT, RIGHT} : heap[n].children[p] \in DOMAIN heap \cup {Nil}

Nodes == Reach(heap, root)

HasChild(n) == heap[n].children[LEFT] # Nil \/ heap[n].children[RIGHT] # Nil

\* some key is held by two nodes
HasDuplicate == \E a, b \in Nodes : a # b /\ heap[a].val = heap[b].val

\* the three rules the validator is there to check
RootIsBlack == root = Nil \/ heap[root].color = Black

NoRedRed ==
    \A n \in Nodes :
        heap[n].color = Red =>
            \A p \in {LEFT, RIGHT} :
                heap[n].children[p] # Nil => heap[heap[n].children[p]].color = Black

\* at every node the two sides agree on one black-height
EqualBlackHeights ==
    \A n \in Nodes :
        /\ Cardinality(BlackPaths(heap, heap[n].children[LEFT])) = 1
        /\ BlackPaths(heap, heap[n].children[LEFT]) =
              BlackPaths(heap, heap[n].children[RIGHT])

RECURSIVE View(_, _)
\* a tree as what stands where: key and colour at every position
View(h, n) ==
    IF n = Nil THEN <<>>
    ELSE <<View(h, h[n].children[LEFT]), h[n].val, h[n].color,
           View(h, h[n].children[RIGHT])>>

\* the references to a and to b exchanged
Exchange(a, b, n) == IF n = a THEN b ELSE IF n = b THEN a ELSE n

\* the events of the last call that are among the given ones, in order
Events(which) == SelectSeq(trace.log, LAMBDA e : e \in which)

Rotations == Events({"rotate_left", "rotate_right"})

\* ---------------------------------------------------------------- claims

\* C1: after every add/remove call, all paths from any node down to an
\* empty child slot contain the same number of Black nodes.
C1_BlackHeight ==
    \A n \in Nodes : Cardinality(BlackPaths(heap, n)) = 1

\* a successful remove left a tree of black-height 2 or more behind
C1_Witness ==
    /\ last.op = "remove" /\ last.ret
    /\ len >= 4
    /\ \E c \in BlackPaths(heap, root) : c >= 2

\* C2: after every add/remove call, no Red node has a Red child.
C2_NoRedRed ==
    \A n \in Nodes :
        heap[n].color = Red =>
            \A p \in {LEFT, RIGHT} :
                heap[n].children[p] # Nil => heap[heap[n].children[p]].color = Black

\* a Red node with children, and a Red node below a Black one
C2_Witness ==
    /\ \E n \in Nodes : heap[n].color = Red /\ HasChild(n)
    /\ \E n \in Nodes : heap[n].color = Red /\ ~HasChild(n)

\* C3: after every add/remove call, the root is absent or Black.
C3_RootBlack ==
    root # Nil => heap[root].color = Black

\* an add whose Red-uncle recolouring reached the root: both children of
\* the root are Black and a grandchild is Red
C3_Witness ==
    /\ last.op = "add"
    /\ root # Nil
    /\ \A p \in {LEFT, RIGHT} :
          /\ heap[root].children[p] # Nil
          /\ heap[heap[root].children[p]].color = Black
    /\ \E n \in Nodes : heap[n].color = Red

\* C4: after every add/remove call, the in-order traversal is sorted
\* ascending (each key is less than or equal to the next).
C4_Sorted ==
    \A i \in 1..(Len(InOrderKeys) - 1) : InOrderKeys[i] <= InOrderKeys[i + 1]

\* a successful remove on a tree that still holds a duplicate key
C4_Witness ==
    /\ last.op = "remove" /\ last.ret
    /\ len >= 4
    /\ HasDuplicate
    /\ \E a, b \in Nodes : heap[a].val < heap[b].val

\* C5: len() is the number of nodes reachable from the root, which is the
\* number of add calls minus the number of remove calls that returned true,
\* and it never goes below zero.
C5_Len ==
    /\ len = Cardinality(Nodes)
    /\ len = adds - removed
    /\ len >= 0

\* adds, successful removes and a failed remove have all happened
C5_Witness ==
    /\ removed >= 2
    /\ adds > removed
    /\ last.op = "remove" /\ ~last.ret

\* C6: remove(key) on a tree without a node holding key returns false and
\* leaves len, the root, every child link and every colour unchanged.
C6_RemoveAbsent ==
    [][(last'.op = "remove" /\ Count(heap, root, last'.val) = 0) =>
           /\ last'.ret = FALSE
           /\ len' = len
           /\ root' = root
           /\ heap' = heap]_vars

\* a failed remove on a non-empty tree from which keys were removed before
C6_Witness ==
    /\ last.op = "remove" /\ ~last.ret
    /\ Count(heap, root, last.val) = 0
    /\ len >= 3
    /\ removed >= 1

\* C7: remove(key) returns true if and only if some node holds key.
C7_RemoveFound ==
    [][last'.op = "remove" =>
           (last'.ret <=> Count(heap, root, last'.val) > 0)]_vars

\* a successful remove of a key of which a copy is still in the right
\* subtree of another copy
C7_Witness ==
    /\ last.op = "remove" /\ last.ret
    /\ \E a \in Nodes :
          /\ heap[a].val = last.val
          /\ \E b \in Reach(heap, heap[a].children[RIGHT]) : heap[b].val = last.val

\* C8: a remove(key) that returns true removes exactly one copy of key and
\* keeps every other key, other copies of key included.
C8_RemoveOne ==
    [][(last'.op = "remove" /\ last'.ret) =>
           \A k \in Keys :
               Count(heap', root', k) =
                   Count(heap, root, k) - (IF k = last'.val THEN 1 ELSE 0)]_vars

\* a successful remove of a key that is still in the tree, beside others
C8_Witness ==
    /\ last.op = "remove" /\ last.ret
    /\ Count(heap, root, last.val) >= 1
    /\ \E n \in Nodes : heap[n].val # last.val

\* C9: add(key) always inserts one more copy of key, also when key is
\* already in the tree, and len() grows by exactly 1.
C9_AddOne ==
    [][last'.op = "add" =>
           /\ len' = len + 1
           /\ \A k \in Keys :
                  Count(heap', root', k) =
                      Count(heap, root, k) + (IF k = last'.val THEN 1 ELSE 0)]_vars

\* an add of a key that was already in the tree
C9_Witness ==
    /\ last.op = "add"
    /\ Count(heap, root, last.val) >= 2
    /\ len >= 3

\* C10: round trip: keys added to an empty tree and then removed in any
\* order: every remove returns true, the red-black invariants hold after
\* every step, and when all are removed the root is absent and len() = 0.
C10_RoundTrip ==
    /\ (last.op = "remove" => last.ret)
    /\ C1_BlackHeight /\ C2_NoRedRed /\ C3_RootBlack
    /\ (phase = "remove" /\ pending = NoKeys) => (root = Nil /\ len = 0)

\* a list of five or more keys with a duplicate was added and removed
C10_Witness ==
    /\ phase = "remove"
    /\ pending = NoKeys
    /\ adds >= 5
    /\ removed = adds
    /\ adds > MaxKey

\* C11: main's scenario.  On an empty tree the keys 3, 5, 1, 7, 13, 15, 4,
\* 17, 9, 11, 2, 21 are added in that order and 7 is removed: the remove
\* returns true, len() is 11, the in-order traversal is 1, 2, 3, 4, 5, 9,
\* 11, 13, 15, 17, 21 and the validator calls the tree valid.
C11_Main ==
    /\ script = AtPrint =>
          /\ last = [op |-> "remove", val |-> MainRemoved, ret |-> TRUE]
          /\ InOrderKeys = <<1, 2, 3, 4, 5, 9, 11, 13, 15, 17, 21>>
    /\ script = AtLen => verdict = "valid"
    /\ script = MainDone =>
          /\ ~panic
          /\ last = [op |-> "len", val |-> 11, ret |-> TRUE]
          /\ len = 11
          /\ InOrderKeys = <<1, 2, 3, 4, 5, 9, 11, 13, 15, 17, 21>>
          /\ verdict = "valid"

C11_Witness == script = MainDone /\ last.op = "len" /\ Cardinality(Nodes) = 11

\* C12: the validator rejects every invalid tree.  Whatever the shape and
\* the colours of a binary tree, is_valid answers false when the root is
\* Red, or a Red node has a Red child, or at some node (the root and the
\* nodes with one child included) the black-heights of the left and the
\* right side differ.
C12_Rejects ==
    verdict # "none" =>
        (~RootIsBlack \/ ~NoRedRed \/ ~EqualBlackHeights => verdict = "NOT valid")

\* C13: the validator accepts every valid tree.  When the root is absent or
\* Black, no Red node has a Red child and every node has equal black-heights
\* on both sides, is_valid answers true and black_height of every subtree
\* is Ok with the number of Black nodes on a path from the subtree's root,
\* itself counted, down to an empty slot.
C13_Accepts ==
    verdict # "none" /\ RootIsBlack /\ NoRedRed /\ EqualBlackHeights =>
        /\ verdict = "valid"
        /\ \A n \in Nodes :
              /\ trace.heights[n].ok
              /\ BlackPaths(heap, n) = {trace.heights[n].val}

\* a valid tree of black-height 2 with a Red node in it was validated
C13_Witness ==
    /\ verdict = "valid" /\ RootIsBlack /\ NoRedRed /\ EqualBlackHeights
    /\ root # Nil /\ trace.heights[root].val = 2
    /\ \E n \in Nodes : heap[n].color = Red

\* C14: after every add and remove the links form a tree: from the root no
\* node is reached twice, the root is in no child slot, and the node a
\* remove spliced out is in no child slot and not in the root slot.
C14_Links ==
    /\ IsTree(heap, root)
    /\ \A n \in Nodes : \A p \in {LEFT, RIGHT} :
          heap[n].children[p] \in (Nodes \ {root}) \cup {Nil}
    /\ trace.op = "remove" /\ trace.ret =>
          /\ trace.out \in DOMAIN trace.before.heap
          /\ trace.links.root # trace.out
          /\ \A n \in DOMAIN trace.links.heap : \A p \in {LEFT, RIGHT} :
                trace.links.heap[n].children[p] # trace.out
          /\ trace.out \notin DOMAIN heap

\* a remove spliced an inner node out of a tree of five nodes after rotating
C14_Witness ==
    /\ trace.op = "remove" /\ trace.ret
    /\ Cardinality(Nodes) = 4
    /\ trace.before.root # trace.out
    /\ \E i \in 1..Len(trace.log) : trace.log[i] \in {"rotate_left", "rotate_right"}

\* C15: the key of a node object never changes.  When remove(key) finds a
\* node with two children, the object taken out of the tree is the one
\* that was found holding key, and the successor's object stays in the
\* tree with its own key.
C15_KeysStay ==
    /\ \A n \in DOMAIN heap \cap DOMAIN trace.before.heap :
          heap[n].val = trace.before.heap[n].val
    /\ trace.op = "remove" /\ trace.ret =>
          /\ trace.out = trace.found
          /\ trace.before.heap[trace.out].val = trace.val
          /\ trace.links.heap[trace.out].val = trace.val
          /\ \A i \in 1..Len(trace.swaps) :
                /\ trace.swaps[i].a = trace.found
                /\ trace.swaps[i].b \in Nodes
                /\ heap[trace.swaps[i].b].val =
                      trace.before.heap[trace.swaps[i].b].val

\* a remove of a key held by a node with two children
C15_Witness ==
    /\ trace.op = "remove" /\ trace.ret
    /\ Len(trace.swaps) = 1
    /\ trace.swaps[1].b \in Nodes
    /\ trace.swaps[1].a \notin Nodes

\* C16: swap_nodes(a, b), a having two children and b being the least node
\* of a's right subtree, does what a swap of the two keys alone would do:
\* the same shape and the same colour at every position, b's object where
\* a's was (the root slot included), a's object where b's was, every other
\* node with its children, be b the right child of a or deeper.
C16_SwapNodes ==
    \A i \in 1..Len(trace.swaps) :
        LET s == trace.swaps[i]
            x(n) == Exchange(s.a, s.b, n)
        IN  /\ View(s.heap2, s.root2) =
                  View([s.heap EXCEPT ![s.a].val = s.heap[s.b].val,
                                      ![s.b].val = s.heap[s.a].val], s.root)
            /\ s.root2 = x(s.root)
            /\ DOMAIN s.heap2 = DOMAIN s.heap
            /\ \A n \in DOMAIN s.heap :
                  /\ s.heap2[n].val = s.heap[n].val
                  /\ s.heap2[x(n)].color = s.heap[n].color
                  /\ \A p \in {LEFT, RIGHT} :
                        s.heap2[x(n)].children[p] = x(s.heap[n].children[p])

\* the root was swapped with a successor that is not its child
C16_Witness ==
    /\ Len(trace.swaps) = 1
    /\ ~trace.swaps[1].adjacent
    /\ trace.swaps[1].a = trace.swaps[1].root
    /\ trace.swaps[1].b = trace.swaps[1].root2

\* C17: in every remove the node handed to extract_node has at most one
\* child.  After the swap with the successor the relocated node has no
\* left child, so remove_last calls itself at most once and does not come
\* to the case of two children a second time.
C17_ExtractOneChild ==
    trace.op = "remove" =>
        LET cases == Events({"rl_two_children", "rl_left_child",
                             "rl_right_child", "rl_no_child"})
        IN  /\ Len(Events({"extract_node"})) <= 1
            /\ Len(Events({"extract_node"})) = 1 => trace.held <= 1
            /\ Len(Events({"swap_nodes"})) <= 1
            /\ Len(cases) <= 2
            /\ Len(cases) = 2 =>
                  /\ cases[1] = "rl_two_children"
                  /\ cases[2] \in {"rl_right_child", "rl_no_child"}
                  /\ trace.log[2] = "swap_nodes"
            /\ Len(cases) = 1 => cases[1] # "rl_two_children"

\* after the swap the relocated node still had a right child to hand up
C17_Witness ==
    /\ trace.op = "remove"
    /\ Events({"rl_two_children", "rl_right_child"}) =
          <<"rl_two_children", "rl_right_child">>
    /\ trace.held = 1

\* the links (node, side) whose target differs between two heaps
Relinked(h1, h2) ==
    {l \in (DOMAIN h1) \X {LEFT, RIGHT} : h2[l[1]].children[l[2]] # h1[l[1]].children[l[2]]}

\* what a rotation down the given side may do to the tree: parent is the
\* last of the ancestry, the pivot its child on the side
Rotated(side) ==
    LET n == Len(trace'.ancestors)
        parent == trace'.ancestors[n]
        pivot == heap[parent.node].children[side]
        inner == opposite_pos(side)
    IN  /\ ~panic'
        /\ InOrder(heap', root') = InOrder(heap, root)
        /\ DOMAIN heap' = DOMAIN heap
        /\ Reach(heap', root') = Reach(heap, root)
        /\ \A x \in DOMAIN heap :
              heap'[x].color = heap[x].color /\ heap'[x].val = heap[x].val
        /\ heap'[parent.node].children[side] = heap[pivot].children[inner]
        /\ heap'[pivot].children[inner] = parent.node
        /\ IF n > 1
           THEN /\ heap'[trace'.ancestors[n - 1].node].children[parent.position] = pivot
                /\ root' = root
                /\ Relinked(heap, heap') =
                      {<<parent.node, side>>, <<pivot, inner>>,
                       <<trace'.ancestors[n - 1].node, parent.position>>}
           ELSE /\ root' = pivot
                /\ Relinked(heap, heap') = {<<parent.node, side>>, <<pivot, inner>>}

\* C18: rotate_left and rotate_right, the node to rotate around last in the
\* ancestry and its pivot child present, keep the in-order sequence of the
\* tree, the set of nodes and every colour.  Three links change and no
\* other: the parent's child on the pivot's side, the pivot's inner child,
\* and the slot that held the parent, which is the grandparent's slot at
\* the parent's position or, with no grandparent, the root slot.
C18_Rotations ==
    [][/\ trace'.op = "rotate_left" => Rotated(RIGHT)
       /\ trace'.op = "rotate_right" => Rotated(LEFT)]_vars

\* a node below the root went down to the left and handed over a subtree
C18_Witness ==
    /\ trace.op = "rotate_left"
    /\ Len(trace.ancestors) >= 2
    /\ heap[trace.ancestors[Len(trace.ancestors)].node].children[RIGHT] # Nil
    /\ Len(trace.after) = Len(trace.ancestors)

\* the branches fix_insert took in the last call, in order
InsertCases ==
    Events({"fi_stop", "fi_black_parent", "fi_red_uncle", "fi_same", "fi_opposite"})

\* the events of the last call from the first of the given kind on
From(event) ==
    LET first == CHOOSE i \in 1..Len(trace.log) :
                     /\ trace.log[i] = event
                     /\ \A j \in 1..(i - 1) : trace.log[j] # event
    IN  SubSeq(trace.log, first, Len(trace.log))

\* C19: in any add, once fix_insert comes to a rotation case (parent Red,
\* uncle Black or absent) it rotates once (same side) or twice (opposite
\* side) and the fix-up ends there, with no Red node left that has a Red
\* child; so one add rotates at most twice.  (The root is Black when the
\* fix-up ends, so the tree the call leaves has the colours of that moment.)
C19_InsertRotations ==
    trace.op = "add" =>
        /\ Len(Rotations) <= 2
        /\ (\E i \in 1..Len(trace.log) : trace.log[i] = "fi_same") =>
              /\ InsertCases[Len(InsertCases)] = "fi_same"
              /\ From("fi_same") \in {<<"fi_same", "rotate_left">>,
                                      <<"fi_same", "rotate_right">>}
              /\ Len(Rotations) = 1
              /\ Events({"root_was_red"}) = <<>> /\ NoRedRed
        /\ (\E i \in 1..Len(trace.log) : trace.log[i] = "fi_opposite") =>
              /\ InsertCases[Len(InsertCases)] = "fi_opposite"
              /\ From("fi_opposite") \in
                    {<<"fi_opposite", "rotate_right", "rotate_left">>,
                     <<"fi_opposite", "rotate_left", "rotate_right">>}
              /\ Len(Rotations) = 2
              /\ Events({"root_was_red"}) = <<>> /\ NoRedRed
        /\ Len(Rotations) > 0 =>
              InsertCases[Len(InsertCases)] \in {"fi_same", "fi_opposite"}

\* an add recoloured under a Red uncle first and then rotated twice
C19_Witness ==
    /\ trace.op = "add"
    /\ InsertCases = <<"fi_red_uncle", "fi_opposite">>
    /\ Len(Rotations) = 2

\* the branches fix_remove took in the last call, in order
RemoveCases ==
    Events({"fr_root", "fr_absent", "fr_black_up", "fr_black_end",
            "fr_single", "fr_double", "fr_red_sibling"})

\* C20: in any remove, after the Red-sibling case of fix_remove (recolour,
\* one rotation, parent pushed back) the one recursive call finds a Black
\* sibling that is present and settles the missing Black at that level,
\* going no further up.  The case of a Black sibling with a Red nephew ends
\* after at most two rotations, so one remove rotates at most three times.
C20_RemoveRotations ==
    trace.op = "remove" =>
        /\ Len(Rotations) <= 3
        /\ \A i \in 1..Len(RemoveCases) :
              /\ RemoveCases[i] = "fr_red_sibling" =>
                    /\ i + 1 = Len(RemoveCases)
                    /\ RemoveCases[i + 1] \in {"fr_black_end", "fr_single", "fr_double"}
              /\ RemoveCases[i] \in {"fr_single", "fr_double"} => i = Len(RemoveCases)
        /\ (\E i \in 1..Len(trace.log) : trace.log[i] = "fr_red_sibling") =>
              /\ From("fr_red_sibling")[2] \in {"rotate_left", "rotate_right"}
              /\ From("fr_red_sibling")[3] \in {"fr_black_end", "fr_single", "fr_double"}
        /\ (\E i \in 1..Len(trace.log) : trace.log[i] = "fr_single") =>
              From("fr_single") \in {<<"fr_single", "rotate_left">>,
                                     <<"fr_single", "rotate_right">>}
        /\ (\E i \in 1..Len(trace.log) : trace.log[i] = "fr_double") =>
              From("fr_double") \in {<<"fr_double", "rotate_left", "rotate_right">>,
                                     <<"fr_double", "rotate_right", "rotate_left">>}

\* a remove met a Red sibling and then a Black one with a Red inner nephew
C20_Witness ==
    /\ trace.op = "remove"
    /\ Len(RemoveCases) >= 2
    /\ RemoveCases[Len(RemoveCases) - 1] = "fr_red_sibling"
    /\ RemoveCases[Len(RemoveCases)] = "fr_double"
    /\ Len(Rotations) = 3

\* the entry into fix_remove numbered i is the call that follows the
\* Red-sibling step: recolouring, one rotation, parent pushed back
AfterRedSibling(i) ==
    /\ trace.steps[i].seen >= 2
    /\ trace.log[trace.steps[i].seen - 1] = "fr_red_sibling"

\* C21: every add and every remove on a tree reached by adds and removes
\* comes to an end.  The descents find_leaf, find_node and find_min_node
\* stop at an empty slot or at a match after passing each node at most
\* once; fix_insert and fix_remove call themselves only with a strictly
\* shorter ancestry, but for the call after the Red-sibling step, which
\* does not call fix_remove again.
C21_Terminates ==
    /\ ~panic
    /\ \A i \in 1..(Len(trace.steps) - 1) :
          IF AfterRedSibling(i + 1)
          THEN /\ trace.steps[i + 1].n = trace.steps[i].n + 1
               /\ i + 1 = Len(trace.steps)
          ELSE trace.steps[i + 1].n < trace.steps[i].n
    /\ root # Nil =>
          \A k \in Keys :
              LET a == find_leaf(k, heap, <<Ancestor(root, LEFT)>>)
                  f == find_node(k, heap, <<Ancestor(root, LEFT)>>)
                  la == heap[a[Len(a)].node]
                  lf == heap[f.ancestors[Len(f.ancestors)].node]
              IN  /\ Cardinality({a[i].node : i \in 1..Len(a)}) = Len(a)
                  /\ la.children[IF k <= la.val THEN LEFT ELSE RIGHT] = Nil
                  /\ Cardinality({f.ancestors[i].node : i \in 1..Len(f.ancestors)}) =
                        Len(f.ancestors)
                  /\ IF f.found THEN lf.val = k
                     ELSE lf.children[IF lf.val > k THEN LEFT ELSE RIGHT] = Nil
    /\ \A n \in Nodes :
          heap[n].children[RIGHT] # Nil =>
              LET a == find_min_node(heap, <<Ancestor(heap[n].children[RIGHT], RIGHT)>>)
              IN  /\ Cardinality({a[i].node : i \in 1..Len(a)}) = Len(a)
                  /\ heap[a[Len(a)].node].children[LEFT] = Nil

\* a remove whose fix_remove went up two levels
C21_Witness ==
    /\ trace.op = "remove"
    /\ Len(trace.steps) >= 3
    /\ ~AfterRedSibling(Len(trace.steps))

\* C22: no add and no remove in any sequence from new() fails on an
\* internal assumption.  Every unwrap meets a value: the ancestry is not
\* empty where its top is read or popped, the pivot child is there in
\* every rotate_left and rotate_right, the Red nephew is there where it
\* is unwrapped, the root is there when add recolours it; and the debug
\* assertions of swap_nodes (a_i < b_i < length of the ancestry) and of
\* find_min_node hold.
C22_NoPanic == ~panic

\* a remove swapped with the successor and rotated twice around a nephew
C22_Witness ==
    /\ ~panic
    /\ trace.op = "remove"
    /\ Events({"swap_nodes", "fr_double"}) = <<"swap_nodes", "fr_double">>
    /\ Len(Rotations) >= 2

\* C23: when add(key) is called with key already in the tree, the new node
\* comes before every node that held an equal key, in the in-order
\* traversal: the node before it, if there is one, holds a strictly smaller
\* key.  This is so in the tree the call leaves, the fix-up done.
C23_DuplicateFirst ==
    trace.op = "add" =>
        LET new == DOMAIN heap \ DOMAIN trace.before.heap
            ord == InOrder(heap, root)
        IN  /\ Cardinality(new) = 1
            /\ \A i \in 1..Len(ord) :
                  ord[i] \in new =>
                      /\ heap[ord[i]].val = trace.val
                      /\ i > 1 => heap[ord[i - 1]].val < trace.val
                      /\ \A j \in 1..Len(ord) :
                            j # i /\ heap[ord[j]].val = trace.val => j > i

\* a key held twice already was added once more, and the fix-up rotated
C23_Witness ==
    /\ trace.op = "add"
    /\ Count(trace.before.heap, trace.before.root, trace.val) = 2
    /\ Count(heap, root, trace.val) = 3
    /\ Len(Rotations) >= 1

\* C24: in no remove on a tree reached by adds and removes does
\* fix_remove take the branch for an absent sibling: whenever it is
\* entered with an ancestry that is not empty, the parent on top of it
\* has a child at sibling_position.
C24_SiblingPresent ==
    trace.op = "remove" => Events({"fr_absent"}) = <<>>

\* fix_remove was entered three times in one remove, a sibling each time
C24_Witness ==
    /\ trace.op = "remove"
    /\ Len(trace.steps) >= 3
    /\ Len(RemoveCases) >= 3
    /\ Events({"fr_absent"}) = <<>>

\* the ancestry of a frame is a path of the tree of that frame
IsPath(f) ==
    \A i \in 1..Len(f.anc) :
        IF i = 1 THEN f.anc[1].node = f.root
        ELSE f.heap[f.anc[i - 1].node].children[f.anc[i].position] = f.anc[i].node

\* frame i is the entry into fn and frame i + 1 the return from that call
Call(i, fn) ==
    /\ i < Len(trace.frames)
    /\ trace.frames[i].fn = fn /\ trace.frames[i].at = "enter"
    /\ trace.frames[i + 1].fn = fn /\ trace.frames[i + 1].at = "return"

\* what a rotation down the given side does to the ancestry between the
\* frames i and i + 1
TopReplaced(i, side) ==
    LET before == trace.frames[i].anc
        after == trace.frames[i + 1].anc
        n == Len(before)
    IN  /\ n >= 1
        /\ Len(after) = n
        /\ SubSeq(after, 1, n - 1) = SubSeq(before, 1, n - 1)
        /\ after[n].position = before[n].position
        /\ after[n].node = trace.frames[i].heap[before[n].node].children[side]
        /\ after[n].node # Nil

\* C25: whenever fix_insert, extract_node, fix_remove, swap_nodes,
\* rotate_left or rotate_right is entered or returns during an add or a
\* remove, the ancestry is a path of the tree as it is then: entry 0 is the
\* root and the node of each later entry is the child of the node before
\* it, in the slot the later entry names.  A rotation keeps the length of
\* the ancestry and puts the pivot in the top entry, with the position of
\* the old parent; swap_nodes keeps the length and the positions and
\* exchanges the two node handles only.
C25_AncestryIsPath ==
    \A i \in 1..Len(trace.frames) :
        /\ IsPath(trace.frames[i])
        /\ Call(i, "rotate_left") => TopReplaced(i, RIGHT)
        /\ Call(i, "rotate_right") => TopReplaced(i, LEFT)
        /\ trace.frames[i].fn \in {"rotate_left", "rotate_right", "swap_nodes"} /\
           trace.frames[i].at = "enter" => Call(i, trace.frames[i].fn)
        /\ Call(i, "swap_nodes") =>
              LET before == trace.frames[i].anc
                  after == trace.frames[i + 1].anc
                  moved == {k \in 1..Len(before) : after[k].node # before[k].node}
              IN  /\ Len(after) = Len(before)
                  /\ \A k \in 1..Len(before) : after[k].position = before[k].position
                  /\ Cardinality(moved) = 2
                  /\ Len(before) \in moved
                  /\ \A k, l \in moved : k # l => after[k].node = before[l].node

\* a remove swapped the found node with its successor and later rotated with
\* an ancestry of two entries or more
C25_Witness ==
    /\ trace.op = "remove"
    /\ \E i, j \in 1..Len(trace.frames) :
          /\ i < j
          /\ Call(i, "swap_nodes")
          /\ Call(j, "rotate_left") \/ Call(j, "rotate_right")
          /\ Len(trace.frames[j].anc) >= 2

============================================================================
